---- MODULE Spec2Model ----
(***************************************************************************)
(* Model of the Square customers foreign data wrapper (src/src/lib.rs).    *)
(* The adapter is one static instance (ExampleFdw) driven by the host      *)
(* through init / begin_scan / iter_scan / re_scan / end_scan and the      *)
(* modify entry points.  The remote transport (http::get), the option      *)
(* store and the column list are the environment: their answers are drawn  *)
(* from small sets.                                                        *)
(***************************************************************************)
EXTENDS Integers, Sequences, FiniteSets, TLC

(* ---------------------------- bounds ----------------------------------- *)
\* largest number of pages the remote collection is split into
MaxPages == 2
\* largest number of records on one page
MaxPageLen == 2
\* largest number of records on a page after the first
MaxTailLen == 1
\* largest number of requested columns of the lifecycle specification
MaxCols == 2
\* largest number of requested columns of the projection specification
MaxProjCols == 2

(* ---------------------------- JSON values ------------------------------ *)
\* serde_json::Value, by kind; s is the text the value carries
JBool(b)   == [kind |-> "bool",   s |-> b]
JNum(n)    == [kind |-> "number", s |-> n]
JStr(t)    == [kind |-> "string", s |-> t]
JObj(t)    == [kind |-> "object", s |-> t]
JArr(t)    == [kind |-> "array",  s |-> t]
JNull      == [kind |-> "null",   s |-> "null"]

\* the field is not a key of the object
Absent     == [kind |-> "absent", s |-> ""]

GoodTs == "2024-01-01T00:00:00Z"
BadTs  == "yesterday"

JsonValues ==
  { JBool("true"), JNum("42"), JNum("1.5"), JStr(GoodTs), JStr(BadTs),
    JObj("{}"), JArr("[]"), JNull }

\* Option<T>: <<>> is None, <<x>> is Some(x)
None       == << >>
Some(x)    == << x >>
IsSome(o)  == Len(o) = 1
Unwrap(o)  == o[1]

as_bool(v)   == IF v.kind = "bool"   THEN Some(v.s) ELSE None
as_str(v)    == IF v.kind = "string" THEN Some(v.s) ELSE None
as_object(v) == IF v.kind = "object" THEN Some(v.s) ELSE None

\* time::parse_from_rfc3339: microseconds since the epoch, or an error
parse_from_rfc3339(t) ==
  IF t = GoodTs THEN [ok |-> TRUE,  val |-> "1704067200000000"]
                ELSE [ok |-> FALSE, val |-> "invalid timestamp"]

(* ---------------------------- cells and columns ------------------------ *)
CellBool(b)      == [tag |-> "Bool",      val |-> b]
CellString(t)    == [tag |-> "String",    val |-> t]
CellTimestamp(t) == [tag |-> "Timestamp", val |-> t]
CellJson(t)      == [tag |-> "Json",      val |-> t]
\* row.push(None)
CellNull         == [tag |-> "Null",      val |-> ""]

\* TypeOid: the four the adapter converts, and two it does not
TypeOids == { "Bool", "String", "Timestamp", "Json", "I64", "F64" }

FieldNames == { "id", "note" }
\* a column name that is a field of no record, and one differing in case only
ColNames   == FieldNames \cup { "email", "ID" }

Columns == [ name : ColNames, type_oid : TypeOids ]

\* a raw record: a JSON object, as the function from field name to value
\* (Absent where the key is missing), or a JSON value that is no object
GetField(rec, name) ==
  IF rec.isobj /\ name \in FieldNames THEN rec.f[name] ELSE Absent

RecordsOver(vals) ==
  { [isobj |-> TRUE, f |-> g] : g \in [FieldNames -> vals] }

\* an element of the customers array that is not a JSON object
NotAnObject == [isobj |-> FALSE, f |-> [n \in FieldNames |-> Absent]]

(* ---------------------------- projection ------------------------------- *)
NoError == [kind |-> "", col |-> ""]
ErrNotFound(name)    == [kind |-> "source column not found", col |-> name]
ErrUnsupported(name) == [kind |-> "data type is not supported", col |-> name]
ErrTimestamp(name)   == [kind |-> "invalid timestamp", col |-> name]

\* a conversion that refuses a String column whose value is no string
Convert_StringMismatchFails(col, src) ==
  CASE col.type_oid = "Bool" ->
         [err |-> NoError,
          cell |-> IF IsSome(as_bool(src)) THEN CellBool(Unwrap(as_bool(src)))
                                           ELSE CellNull]
    [] col.type_oid = "String" ->
         IF IsSome(as_str(src))
           THEN [err |-> NoError, cell |-> CellString(Unwrap(as_str(src)))]
           ELSE [err |-> ErrUnsupported(col.name), cell |-> CellNull]
    [] col.type_oid = "Timestamp" ->
         IF IsSome(as_str(src))
           THEN IF parse_from_rfc3339(Unwrap(as_str(src))).ok
                  THEN [err |-> NoError,
                        cell |-> CellTimestamp(parse_from_rfc3339(Unwrap(as_str(src))).val)]
                  ELSE [err |-> ErrTimestamp(col.name), cell |-> CellNull]
           ELSE [err |-> NoError, cell |-> CellNull]
    [] col.type_oid = "Json" ->
         [err |-> NoError,
          cell |-> IF IsSome(as_object(src)) THEN CellJson(src.s) ELSE CellNull]
    [] OTHER -> [err |-> ErrUnsupported(col.name), cell |-> CellNull]

\* lines 143-161: the cell of one column whose source field is present
Convert(col, src) ==
  CASE col.type_oid = "Bool" ->
         [err |-> NoError,
          cell |-> IF IsSome(as_bool(src)) THEN CellBool(Unwrap(as_bool(src)))
                                           ELSE CellNull]
    [] col.type_oid = "String" ->
         [err |-> NoError,
          cell |-> IF IsSome(as_str(src)) THEN CellString(Unwrap(as_str(src)))
                                          ELSE CellNull]
    [] col.type_oid = "Timestamp" ->
         IF IsSome(as_str(src))
           THEN IF parse_from_rfc3339(Unwrap(as_str(src))).ok
                  THEN [err |-> NoError,
                        cell |-> CellTimestamp(parse_from_rfc3339(Unwrap(as_str(src))).val)]
                  ELSE [err |-> ErrTimestamp(col.name), cell |-> CellNull]
           ELSE [err |-> NoError, cell |-> CellNull]
    [] col.type_oid = "Json" ->
         [err |-> NoError,
          cell |-> IF IsSome(as_object(src)) THEN CellJson(src.s) ELSE CellNull]
    [] OTHER -> [err |-> ErrUnsupported(col.name), cell |-> CellNull]

\* a lookup that passes a missing field on as JSON null
Lookup_MissingIsNull(rec, name) ==
  IF GetField(rec, name) = Absent
    THEN [err |-> NoError, src |-> JNull]
    ELSE [err |-> NoError, src |-> GetField(rec, name)]

\* lines 139-142: src_row.as_object().and_then(|v| v.get(name)).ok_or(..)?
Lookup(rec, name) ==
  IF GetField(rec, name) = Absent
    THEN [err |-> ErrNotFound(name), src |-> Absent]
    ELSE [err |-> NoError, src |-> GetField(rec, name)]

\* lines 137-164: the loop over ctx.get_columns(); pushed is what row.push
\* has put into the caller's row so far, err the error the loop stopped with
RECURSIVE ProjectFrom(_, _, _, _)
ProjectFrom(rec, cols, i, pushed) ==
  IF i > Len(cols) THEN [cells |-> pushed, err |-> NoError]
  ELSE LET look == Lookup(rec, cols[i].name) IN
       IF look.err # NoError THEN [cells |-> pushed, err |-> look.err]
       ELSE LET conv == Convert(cols[i], look.src) IN
            IF conv.err # NoError THEN [cells |-> pushed, err |-> conv.err]
            ELSE ProjectFrom(rec, cols, i + 1, Append(pushed, conv.cell))

Project(rec, cols) == ProjectFrom(rec, cols, 1, << >>)

(* ---------------------------- the remote ------------------------------- *)
\* the records the lifecycle specification puts on the remote's pages
RecA == [isobj |-> TRUE,
         f |-> [n \in FieldNames |-> IF n = "id" THEN JStr(GoodTs) ELSE JBool("true")]]
RecB == [isobj |-> TRUE,
         f |-> [n \in FieldNames |-> IF n = "id" THEN JStr(BadTs) ELSE Absent]]
ScanRecords == { RecA, RecB }

SeqsUpTo(S, n) == UNION { [1..k -> S] : k \in 0..n }

Pages == SeqsUpTo(ScanRecords, MaxPageLen)
TailPages == SeqsUpTo(ScanRecords, MaxTailLen)
\* a remote collection: its pages in order; page k+1 is reached with cursor k+1
Remotes ==
  { << first >> \o rest : first \in Pages, rest \in SeqsUpTo(TailPages, MaxPages - 1) }

\* the columns the host asks for in the lifecycle specification
ScanColumns ==
  { [name |-> "id",   type_oid |-> "Timestamp"],
    [name |-> "note", type_oid |-> "String"],
    [name |-> "id",   type_oid |-> "I64"] }
ColumnLists == SeqsUpTo(ScanColumns, MaxCols)

\* a cursor is a page number; 0 stands for the empty string
PageOf(c) == IF c = 0 THEN 1 ELSE c

CurAbsent    == [kind |-> "absent", c |-> 0]
CurNull      == [kind |-> "null",   c |-> 0]
CurNumber    == [kind |-> "number", c |-> 0]
CurString(c) == [kind |-> "string", c |-> c]

Body(valid, ckind, rows, cur) ==
  [valid |-> valid, customers |-> ckind, rows |-> rows, cursor |-> cur]

\* what http::get may answer to a request for the page behind cursor c
GoodResponses(rem, c) ==
  { [transport |-> "ok", status |-> 200,
     body |-> Body(TRUE, "array", rem[PageOf(c)], cur)] :
      cur \in IF PageOf(c) < Len(rem) THEN { CurString(PageOf(c) + 1) }
                                     ELSE { CurAbsent, CurNull } }

BadResponses(rem, c) ==
  { [transport |-> "error", status |-> 0, body |-> Body(FALSE, "absent", << >>, CurAbsent)],
    [transport |-> "ok", status |-> 500, body |-> Body(TRUE, "absent", << >>, CurAbsent)],
    [transport |-> "ok", status |-> 500, body |-> Body(TRUE, "array", rem[PageOf(c)], CurAbsent)],
    [transport |-> "ok", status |-> 200, body |-> Body(FALSE, "absent", << >>, CurAbsent)],
    [transport |-> "ok", status |-> 200, body |-> Body(TRUE, "absent", << >>, CurAbsent)],
    [transport |-> "ok", status |-> 200, body |-> Body(TRUE, "object", << >>, CurAbsent)],
    [transport |-> "ok", status |-> 200, body |-> Body(TRUE, "array", rem[PageOf(c)], CurNumber)] }

Responses(rem, c) == GoodResponses(rem, c) \cup BadResponses(rem, c)

\* the page fetch failed: transport error, bad status, unparsable body or
\* a customers field that is no array
FetchFailed(resp) ==
  \/ resp.transport # "ok"
  \/ resp.status # 200
  \/ ~resp.body.valid
  \/ resp.body.customers # "array"

(* ---------------------------- options ---------------------------------- *)
DefaultUrl == "https://connect.squareup.com/v2/customers"
Token == "secret-token"

\* the options a call finds in its ctx: one record shape for the server
\* options init reads and the table options begin_scan reads
Options(api_url, object, lim, cur, token) ==
  [api_url |-> api_url, object |-> object, limit |-> lim, cursor |-> cur,
   access_token |-> token]
NoOptions == Options(None, None, None, None, None)

\* the server options: api_url is optional, and the server may or may not
\* carry an access_token
ServerOptions ==
  { Options(u, None, None, None, t) :
      u \in { None, Some("https://example.test/customers") },
      t \in { None, Some(Token) } }

\* the table options begin_scan reads; the optional hints limit and cursor
\* are left unset, so the request is for the first page with limit 100
TableOptions ==
  { Options(None, o, None, None, t) :
      o \in { None, Some("customers") }, t \in { None, Some(Token) } }

require_or(o, d) == IF IsSome(o) THEN Unwrap(o) ELSE d

Url(base, limit, c) == [base |-> base, limit |-> limit, cursor |-> c]
Request(url, token) == [url |-> url, authorization |-> token]
NoRequest == Request(Url("", "", 0), "")

\* the call received no response from http::get
NoResponse ==
  [transport |-> "none", status |-> 0, body |-> Body(FALSE, "absent", << >>, CurAbsent)]

\* a message for utils::report_info: its text and the values formatted in
Message(text, parts) == [text |-> text, parts |-> parts]
NoInfo == Message("", << >>)

\* a begin_scan that puts the access token into its progress message
InfoMessage_WithToken(rows, token) ==
  Message("We got response array length", << ToString(Len(rows)), token >>)

\* line 89: format!("We got response array length: {}", this.src_rows.len())
InfoMessage(rows, token) ==
  Message("We got response array length", << ToString(Len(rows)) >>)

(* ---------------------------- results ---------------------------------- *)
Ok          == [kind |-> "ok",    err |-> NoError]
OkRow       == [kind |-> "row",   err |-> NoError]
OkNone      == [kind |-> "none",  err |-> NoError]
Panic(what) == [kind |-> "panic", err |-> [kind |-> what, col |-> ""]]
Err(e)      == [kind |-> "err",   err |-> e]
ErrOption(name) == [kind |-> "required option not specified", col |-> name]
ErrTransport    == [kind |-> "http transport error", col |-> ""]
ErrParse        == [kind |-> "json parse error", col |-> ""]
ErrReScan       == [kind |-> "re_scan on foreign table is not supported", col |-> ""]
ErrModify       == [kind |-> "modify on foreign table is not supported", col |-> ""]
NotCalled   == [kind |-> "-", err |-> NoError]

(* ---------------------------- state ------------------------------------ *)
VARIABLES
  instance,     \* INSTANCE is non-null: init has built the ExampleFdw
  base_url,     \* ExampleFdw.base_url
  src_rows,     \* ExampleFdw.src_rows, the record buffer
  src_idx,      \* ExampleFdw.src_idx, the read offset
  next_cursor,  \* ExampleFdw.next_cursor, read by iter_scan
  limit,        \* ExampleFdw.limit, read by iter_scan
  access_token, \* ExampleFdw.access_token, read by iter_scan
  trapped,      \* a panic has unwound the guest; the instance is gone
  remote,       \* the remote collection, as its pages in order
  request,      \* the last request handed to http::get
  response,     \* what http::get answered to the last call, if it asked
  calls,        \* requests issued since the last begin_scan was entered
  options,      \* the options the last call read from its ctx, if any
  info,         \* what the last call gave to utils::report_info, if anything
  columns,      \* ctx.get_columns() of the last call, if it was iter_scan
  row,          \* the row slot the last call was given, as the call left it
  delivered,    \* records emitted as rows since the last begin_scan
  open,         \* begin_scan returned Ok and no end_scan or init came since
  fetch_failed, \* a page fetch failed since the last begin_scan was entered
  tables,       \* the logical tables whose lifecycles the host drives
  caller,       \* the table the last call was made for
  solo,         \* per table, buffer and offset of an instance of its own
  last,         \* the entry point called last
  ret           \* what it returned

fdw  == << instance, base_url, src_rows, src_idx, next_cursor, limit, access_token >>
scan == << src_rows, src_idx, next_cursor >>
env  == << remote, request, calls, columns, row, delivered, open, fetch_failed >>
ctx  == << response, options, info >>
host == << tables, caller, solo >>
vars == << fdw, trapped, env, ctx, host, last, ret >>

\* an instance of its own before and after the table's init
Unborn == [live |-> FALSE, rows |-> << >>, idx |-> 0]
Fresh  == [live |-> TRUE,  rows |-> << >>, idx |-> 0]

\* the part of Init that does not depend on the number of tables
InitFdw ==
  /\ instance = FALSE
  /\ base_url = ""
  /\ src_rows = << >>
  /\ src_idx = 0
  /\ next_cursor = None
  /\ limit = ""
  /\ access_token = ""
  /\ trapped = FALSE
  /\ remote \in Remotes
  /\ request = NoRequest
  /\ response = NoResponse
  /\ calls = 0
  /\ options = NoOptions
  /\ info = NoInfo
  /\ columns = << >>
  /\ row = << >>
  /\ delivered = << >>
  /\ open = FALSE
  /\ fetch_failed = FALSE
  /\ caller = "-"
  /\ last = "-"
  /\ ret = NotCalled

\* the static INSTANCE pointer is null until init runs (line 22); the
\* fields are those of ExampleFdw::default().  next_cursor, limit and
\* access_token are read by iter_scan (lines 99-108) but are not among the
\* fields the struct declares (lines 15-19) and nothing outside iter_scan
\* assigns them: they are taken as fields of the derived Default, None and
\* the empty string
Init ==
  /\ InitFdw
  /\ tables = { "A" }
  /\ solo = [t \in tables |-> Unborn]

\* a call that reads no options, asks the remote nothing and reports nothing
Quiet == response' = NoResponse /\ options' = NoOptions /\ info' = NoInfo

\* the call is made for table t; upd is what it does to an instance that
\* only t uses
CallFor(t, upd) ==
  /\ caller' = t
  /\ solo' = [solo EXCEPT ![t] = upd]
  /\ UNCHANGED tables

\* a call for some table that leaves buffer and offset alone
CallKeeps == \E t \in tables : CallFor(t, solo[t])

\* the host makes a scan call for a table only after that table's init
Inited(t) == solo[t].live

\* lines 98, 131, 136-169 on an instance of its own, whose next_cursor is None
SoloIter(s, cols) ==
  IF s.idx >= Len(s.rows) THEN s
  ELSE IF Project(s.rows[s.idx + 1], cols).err = NoError
    THEN [s EXCEPT !.idx = @ + 1]
    ELSE s

\* the host calls an entry point that uses this_mut() only on a live instance
Live == instance /\ ~trapped

(* ---------------------------- init ------------------------------------- *)
\* lines 45-53: a fresh default instance replaces the old one
init ==
  \E opts \in ServerOptions :
    /\ instance' = TRUE
    /\ base_url' = require_or(opts.api_url, DefaultUrl)
    /\ options' = opts
    /\ response' = NoResponse
    /\ info' = NoInfo
    /\ \E t \in tables : CallFor(t, Fresh)
    /\ src_rows' = << >>
    /\ src_idx' = 0
    /\ next_cursor' = None
    /\ limit' = ""
    /\ access_token' = ""
    /\ trapped' = FALSE
    /\ open' = FALSE
    /\ row' = << >>
    /\ delivered' = << >>
    /\ last' = "init"
    /\ ret' = Ok
    /\ columns' = << >>
    /\ UNCHANGED << remote, request, calls, fetch_failed >>

(* ---------------------------- begin_scan ------------------------------- *)
\* a begin_scan that unwraps the page's cursor as a string when it is present
BeginScanResult_StrictCursor(resp) ==
  IF resp.transport # "ok"
    THEN [ret |-> Err(ErrTransport), rows |-> src_rows, cursor |-> next_cursor]
  ELSE IF ~resp.body.valid
    THEN [ret |-> Err(ErrParse), rows |-> src_rows, cursor |-> next_cursor]
  ELSE IF resp.body.customers # "array"
    THEN [ret |-> Panic("response should be a JSON array"), rows |-> src_rows,
          cursor |-> next_cursor]
  ELSE IF resp.body.cursor.kind \notin { "absent", "string" }
    THEN [ret |-> Panic("called Option::unwrap() on a None value"),
          rows |-> resp.body.rows, cursor |-> next_cursor]
  ELSE [ret |-> Ok, rows |-> resp.body.rows, cursor |-> next_cursor]

\* begin_scan as it would be if it kept the page's cursor for iter_scan
BeginScanResult_KeepsCursor(resp) ==
  IF resp.transport # "ok"
    THEN [ret |-> Err(ErrTransport), rows |-> src_rows, cursor |-> next_cursor]
  ELSE IF ~resp.body.valid
    THEN [ret |-> Err(ErrParse), rows |-> src_rows, cursor |-> next_cursor]
  ELSE IF resp.body.customers # "array"
    THEN [ret |-> Panic("response should be a JSON array"), rows |-> src_rows,
          cursor |-> next_cursor]
  ELSE [ret |-> Ok, rows |-> resp.body.rows,
        cursor |-> IF resp.body.cursor.kind = "string"
                     THEN Some(resp.body.cursor.c) ELSE None]

\* lines 80-91: what begin_scan does with the answer of http::get: the
\* buffer it stores, and the cursor field, which it never assigns
BeginScanResult(resp) ==
  IF resp.transport # "ok"
    THEN [ret |-> Err(ErrTransport), rows |-> src_rows, cursor |-> next_cursor]
  ELSE IF ~resp.body.valid
    THEN [ret |-> Err(ErrParse), rows |-> src_rows, cursor |-> next_cursor]
  ELSE IF resp.body.customers # "array"
    THEN [ret |-> Panic("response should be a JSON array"), rows |-> src_rows,
          cursor |-> next_cursor]
  ELSE [ret |-> Ok, rows |-> resp.body.rows, cursor |-> next_cursor]

\* lines 55-92
begin_scan ==
  /\ Live
  /\ \E opts \in TableOptions :
       /\ UNCHANGED remote
       /\ columns' = << >>
       /\ delivered' = << >>
       /\ row' = << >>
       /\ last' = "begin_scan"
       /\ options' = opts
       /\ IF ~IsSome(opts.object)
            THEN /\ ret' = Err(ErrOption("object"))
                 /\ open' = FALSE
                 /\ fetch_failed' = FALSE
                 /\ calls' = 0
                 /\ response' = NoResponse
                 /\ info' = NoInfo
                 /\ \E t \in tables : Inited(t) /\ CallFor(t, solo[t])
                 /\ UNCHANGED << fdw, trapped, request >>
          ELSE IF ~IsSome(opts.access_token)
            THEN /\ ret' = Err(ErrOption("access_token"))
                 /\ open' = FALSE
                 /\ fetch_failed' = FALSE
                 /\ calls' = 0
                 /\ response' = NoResponse
                 /\ info' = NoInfo
                 /\ \E t \in tables : Inited(t) /\ CallFor(t, solo[t])
                 /\ UNCHANGED << fdw, trapped, request >>
          ELSE \E resp \in Responses(remote, require_or(opts.cursor, 0)) :
                 LET res == BeginScanResult(resp) IN
                 /\ request' = Request(Url(base_url, require_or(opts.limit, "100"),
                                           require_or(opts.cursor, 0)),
                                       Unwrap(opts.access_token))
                 /\ response' = resp
                 /\ calls' = 1
                 /\ info' = IF res.ret = Ok
                              THEN InfoMessage(res.rows, Unwrap(opts.access_token))
                              ELSE NoInfo
                 /\ \E t \in tables :
                      Inited(t) /\
                      CallFor(t, IF res.ret = Ok THEN [solo[t] EXCEPT !.rows = res.rows]
                                                ELSE solo[t])
                 /\ src_rows' = res.rows
                 /\ next_cursor' = res.cursor
                 /\ ret' = res.ret
                 /\ trapped' = (res.ret.kind = "panic")
                 /\ open' = (res.ret = Ok)
                 /\ fetch_failed' = FetchFailed(resp)
                 /\ UNCHANGED << instance, base_url, src_idx, limit, access_token >>

(* ---------------------------- iter_scan -------------------------------- *)
\* lines 135-169: project src_rows[src_idx] of the given buffer into the row
\* slot and advance; the index is checked, so a read past the end panics
IterRow(cols, rows, idx) ==
  IF idx >= Len(rows)
    THEN /\ ret' = Panic("index out of bounds")
         /\ trapped' = TRUE
         /\ row' = << >>
         /\ src_idx' = idx
         /\ UNCHANGED delivered
    ELSE LET p == Project(rows[idx + 1], cols) IN
         /\ row' = p.cells
         /\ trapped' = FALSE
         /\ IF p.err # NoError
              THEN /\ ret' = Err(p.err)
                   /\ src_idx' = idx
                   /\ UNCHANGED delivered
              ELSE /\ ret' = OkRow
                   /\ src_idx' = idx + 1
                   /\ delivered' = Append(delivered, rows[idx + 1])

\* lines 99-128: the buffer is used up and a cursor is stored
IterFetch(cols, resp) ==
  /\ response' = resp
  /\ request' = Request(Url(base_url, limit, Unwrap(next_cursor)), access_token)
  /\ calls' = calls + 1
  /\ fetch_failed' = (fetch_failed \/ FetchFailed(resp))
  /\ IF resp.transport # "ok"
       THEN /\ ret' = Err(ErrTransport)
            /\ row' = << >>
            /\ UNCHANGED << scan, trapped, delivered >>
     ELSE IF ~resp.body.valid
       THEN /\ ret' = Err(ErrParse)
            /\ row' = << >>
            /\ UNCHANGED << scan, trapped, delivered >>
     ELSE IF resp.body.customers # "array"
       THEN /\ ret' = Panic("called Option::unwrap() on a None value")
            /\ trapped' = TRUE
            /\ row' = << >>
            /\ UNCHANGED << scan, delivered >>
     ELSE IF resp.body.cursor.kind \notin { "absent", "string" }
       THEN /\ ret' = Panic("called Option::unwrap() on a None value")
            /\ trapped' = TRUE
            /\ row' = << >>
            /\ src_rows' = resp.body.rows
            /\ UNCHANGED << src_idx, next_cursor, delivered >>
     ELSE /\ src_rows' = resp.body.rows
          /\ next_cursor' = IF resp.body.cursor.kind = "string"
                              THEN Some(resp.body.cursor.c) ELSE None
          /\ IterRow(cols, resp.body.rows, 0)

AllConsumed_OffByOne(idx, rows) == idx > Len(rows)

\* line 98: this.src_idx >= this.src_rows.len()
AllConsumed(idx, rows) == idx >= Len(rows)

\* lines 94-170, for a host whose column list is one of lists
IterScan(lists) ==
  /\ Live
  /\ last' = "iter_scan"
  /\ UNCHANGED << instance, base_url, limit, access_token, remote, open >>
  /\ options' = NoOptions
  /\ info' = NoInfo
  /\ \E cols \in lists :
       /\ columns' = cols
       /\ \E t \in tables : Inited(t) /\ CallFor(t, SoloIter(solo[t], cols))
       /\ IF AllConsumed(src_idx, src_rows)
            THEN IF IsSome(next_cursor)
                   THEN \E resp \in Responses(remote, Unwrap(next_cursor)) :
                          IterFetch(cols, resp)
                   ELSE /\ ret' = OkNone
                        /\ row' = << >>
                        /\ response' = NoResponse
                        /\ UNCHANGED << scan, trapped, request, calls, delivered,
                                        fetch_failed >>
            ELSE /\ IterRow(cols, src_rows, src_idx)
                 /\ response' = NoResponse
                 /\ UNCHANGED << src_rows, next_cursor, request, calls, fetch_failed >>

iter_scan == IterScan(ColumnLists)

(* ---------------------------- re_scan, end_scan ------------------------ *)
\* a re_scan that rewinds the read offset instead of refusing
re_scan_Rewinds ==
  /\ ~trapped
  /\ last' = "re_scan"
  /\ ret' = Ok
  /\ src_idx' = 0
  /\ Quiet
  /\ CallKeeps
  /\ columns' = << >>
  /\ row' = << >>
  /\ UNCHANGED << instance, base_url, src_rows, next_cursor, limit, access_token,
                  trapped, remote, request, calls, delivered, open, fetch_failed >>

\* lines 172-174
re_scan ==
  /\ ~trapped
  /\ last' = "re_scan"
  /\ ret' = Err(ErrReScan)
  /\ Quiet
  /\ CallKeeps
  /\ columns' = << >>
  /\ row' = << >>
  /\ UNCHANGED << fdw, trapped, remote, request, calls, delivered, open, fetch_failed >>

\* lines 176-180: the buffer is cleared; src_idx is not touched
end_scan ==
  /\ Live
  /\ src_rows' = << >>
  /\ open' = FALSE
  /\ last' = "end_scan"
  /\ ret' = Ok
  /\ Quiet
  /\ \E t \in tables : Inited(t) /\ CallFor(t, [solo[t] EXCEPT !.rows = << >>])
  /\ columns' = << >>
  /\ row' = << >>
  /\ UNCHANGED << instance, base_url, src_idx, next_cursor, limit, access_token,
                  trapped, remote, request, calls, delivered, fetch_failed >>

(* ---------------------------- the write path --------------------------- *)
\* an entry point that ignores its arguments, does not use this_mut() and
\* returns a fixed result
Fixed(name, result) ==
  /\ ~trapped
  /\ last' = name
  /\ ret' = result
  /\ Quiet
  /\ CallKeeps
  /\ columns' = << >>
  /\ row' = << >>
  /\ UNCHANGED << fdw, trapped, remote, request, calls, delivered, open, fetch_failed >>

\* lines 182-184
begin_modify == Fixed("begin_modify", Err(ErrModify))

\* lines 186-188
insert == Fixed("insert", Ok)

\* lines 190-192
update == Fixed("update", Ok)

\* lines 194-196
delete == Fixed("delete", Ok)

\* lines 198-200
end_modify == Fixed("end_modify", Ok)

(* ---------------------------- specification ---------------------------- *)
Next ==
  \/ init
  \/ begin_scan
  \/ iter_scan
  \/ re_scan
  \/ end_scan
  \/ begin_modify
  \/ insert
  \/ update
  \/ delete
  \/ end_modify

Spec == Init /\ [][Next]_vars

(* ---------------------------- two tables ------------------------------- *)
\* the host drives the lifecycles of two logical tables through the one
\* static INSTANCE (lines 21-36)
InitTwo ==
  /\ InitFdw
  /\ Len(remote) = 1
  /\ Len(remote[1]) = 1
  /\ tables = { "A", "B" }
  /\ solo = [t \in tables |-> Unborn]

SpecTwo == InitTwo /\ [][Next]_vars

(* ---------------------------- projection specification ---------------- *)
\* every record over the JSON shapes, with either field possibly missing,
\* and an array element that is no object
ProjRecords == RecordsOver(JsonValues \cup { Absent }) \cup { NotAnObject }
ProjColumnLists == SeqsUpTo(Columns, MaxProjCols)

\* the state a successful begin_scan of a fresh instance leaves when the
\* remote's only page holds one record
InitProj ==
  /\ instance = TRUE
  /\ base_url = DefaultUrl
  /\ \E rec \in ProjRecords : src_rows = << rec >>
  /\ src_idx = 0
  /\ next_cursor = None
  /\ limit = ""
  /\ access_token = ""
  /\ trapped = FALSE
  /\ remote = << src_rows >>
  /\ request = Request(Url(DefaultUrl, "100", 0), Token)
  /\ response = [transport |-> "ok", status |-> 200,
                 body |-> Body(TRUE, "array", src_rows, CurAbsent)]
  /\ calls = 1
  /\ options = Options(None, Some("customers"), None, None, Some(Token))
  /\ info = InfoMessage(src_rows, Token)
  /\ tables = { "A" }
  /\ caller = "A"
  /\ solo = [t \in tables |-> [live |-> TRUE, rows |-> src_rows, idx |-> 0]]
  /\ columns = << >>
  /\ row = << >>
  /\ delivered = << >>
  /\ open = TRUE
  /\ fetch_failed = FALSE
  /\ last = "begin_scan"
  /\ ret = Ok

\* the first row fetch of that scan, for any column list
iter_scan_proj == last = "begin_scan" /\ IterScan(ProjColumnLists)

NextProj == iter_scan_proj

SpecProj == InitProj /\ [][NextProj]_vars

(* ---------------------------- claims ----------------------------------- *)
RECURSIVE Flatten(_)
Flatten(pages) ==
  IF pages = << >> THEN << >> ELSE Head(pages) \o Flatten(Tail(pages))

\* the scan in progress has run to exhaustion without a failed fetch
ScanCompleted ==
  /\ open
  /\ ~fetch_failed
  /\ last = "iter_scan"
  /\ ret = OkNone

\* C1: a scan over N+1 pages, every one but the last with a cursor, delivers
\* the concatenation of all pages in order, each record once, and issues
\* exactly N+1 requests
C1_ScanDeliversAllPages ==
  ScanCompleted => (delivered = Flatten(remote) /\ calls = Len(remote))

Exhausted == Live /\ src_idx >= Len(src_rows)

\* C3: once the offset has reached the buffer length, iter_scan answers
\* "no more rows" without touching the scan state, and it keeps doing so
\* until a begin_scan is performed
C3_ExhaustionIsStable ==
  [][ /\ (Exhausted /\ last' = "iter_scan")
         => (ret' = OkNone /\ row' = << >> /\ UNCHANGED scan)
      /\ (Exhausted /\ last' # "begin_scan") => Exhausted' ]_vars

\* all N > 0 rows of the scan were emitted and the next iter_scan said "none"
C3_Witness ==
  /\ ScanCompleted
  /\ Len(src_rows) > 0
  /\ delivered = src_rows
  /\ src_idx = Len(src_rows)

\* the record an iter_scan of the projection specification worked on
Projected == src_rows[1]

\* iter_scan went through the columns from the left: it pushed one cell per
\* column and returned a row, or it stopped at the first column it failed on
LeftToRight ==
  \/ ret = OkRow /\ Len(row) = Len(columns)
  \/ ret.kind = "err" /\ Len(row) < Len(columns)

\* what iter_scan made of column j: the cell it pushed, or the error it
\* stopped with
Outcome(j) ==
  IF j <= Len(row) THEN [err |-> NoError, cell |-> row[j]]
                   ELSE [err |-> ret.err, cell |-> CellNull]

Integral(v) == v = JNum("42")

\* the conversion table of the claim, for a column of type t named n whose
\* field holds v: o is an outcome the table allows
C4_Table(t, n, v, o) ==
  CASE t = "Bool" ->
         o = [err |-> NoError,
              cell |-> IF v.kind = "bool" THEN [tag |-> "Bool", val |-> v.s]
                                          ELSE CellNull]
    [] t = "I64" ->
         o = [err |-> NoError,
              cell |-> IF v.kind = "number" /\ Integral(v)
                         THEN [tag |-> "I64", val |-> v.s] ELSE CellNull]
    [] t = "String" ->
         o = [err |-> NoError,
              cell |-> IF v.kind = "string" THEN [tag |-> "String", val |-> v.s]
                                            ELSE CellNull]
    [] t = "Json" ->
         o = [err |-> NoError,
              cell |-> IF v.kind = "object" THEN [tag |-> "Json", val |-> v.s]
                                            ELSE CellNull]
    [] t = "Timestamp" ->
         IF v.kind # "string" THEN o = [err |-> NoError, cell |-> CellNull]
         ELSE IF v.s = BadTs THEN o.err.kind = "invalid timestamp" /\ o.err.col = n
         ELSE o.err = NoError /\ o.cell.tag = "Timestamp"
    [] OTHER -> o.err.kind = "data type is not supported" /\ o.err.col = n

\* the same table with Int64 among the types that are not supported
C4_TableAmended(t, n, v, o) ==
  IF t = "I64"
    THEN o.err.kind = "data type is not supported" /\ o.err.col = n
    ELSE C4_Table(t, n, v, o)

MissingColumns ==
  { j \in 1..Len(columns) : GetField(Projected, columns[j].name) = Absent }

\* C5: when a requested column is no field of the record, iter_scan fails,
\* no cell is emitted for that column, and when it is the first column to
\* fail the error is "source column not found" with its name
C5_MissingFieldIsHardError ==
  (last = "iter_scan" /\ MissingColumns # {}) =>
    /\ ret.kind = "err"
    /\ \A j \in MissingColumns :
         /\ Len(row) < j
         /\ Len(row) = j - 1 => ret.err = ErrNotFound(columns[j].name)

\* a Bool column named ID found no field in a record that has the field id,
\* after a first column was converted
C5_Witness ==
  /\ last = "iter_scan"
  /\ ret = Err(ErrNotFound("ID"))
  /\ columns = << [name |-> "id", type_oid |-> "String"],
                  [name |-> "ID", type_oid |-> "Bool"] >>
  /\ GetField(Projected, "id") # Absent
  /\ Len(row) = 1

\* C6: in a scan in which a page fetch failed no row is delivered: no
\* iter_scan yields a row from the failure until the next begin_scan
C6_NoRowAfterFailedFetch ==
  ~(fetch_failed /\ last = "iter_scan" /\ ret = OkRow)

\* C7: an iter_scan that fails on a column has written no cell to the row
\* slot and has left the read offset and the record buffer alone
C7_ProjectionAllOrNothing ==
  [][ (last' = "iter_scan" /\ ret'.kind = "err")
        => (row' = << >> /\ src_idx' = src_idx /\ src_rows' = src_rows) ]_vars

\* C8: the read offset never exceeds the length of the record buffer
C8_OffsetWithinBuffer ==
  0 <= src_idx /\ src_idx <= Len(src_rows)

\* C9: after end_scan the record buffer is empty and the read offset is 0,
\* and an end_scan that follows an end_scan changes nothing in the adapter
C9_EndScanResets ==
  [][ last' = "end_scan"
        => /\ ret' = Ok
           /\ src_rows' = << >>
           /\ src_idx' = 0
           /\ last = "end_scan" => UNCHANGED fdw ]_vars

\* C10: re_scan fails with the unsupported-operation error in every state
\* and leaves the record buffer, the read offset and the rest of the
\* adapter as they were
C10_ReScanUnsupported ==
  [][ last' = "re_scan" => (ret' = Err(ErrReScan) /\ UNCHANGED fdw) ]_vars

\* re_scan was refused in the middle of an iteration
C10_Witness ==
  /\ last = "re_scan"
  /\ ret = Err(ErrReScan)
  /\ open
  /\ 0 < src_idx
  /\ src_idx < Len(src_rows)

WritePath == { "begin_modify", "insert", "update", "delete" }

\* C11: begin_modify, insert, update and delete each return a "not
\* supported" error, end_modify returns success, and none of them changes
\* the adapter
C11_WritePathUnsupported ==
  [][ /\ last' \in WritePath => (ret'.kind = "err" /\ UNCHANGED fdw)
      /\ last' = "end_modify" => (ret' = Ok /\ UNCHANGED fdw) ]_vars

\* C12: a response with a non-success status makes the fetch fail with an
\* error, and its body does not reach the record buffer
C12_BadStatusFailsFetch ==
  [][ (response'.transport = "ok" /\ response'.status # 200)
        => (ret'.kind = "err" /\ src_rows' = src_rows) ]_vars

\* C13: init returns a configuration error when the server options hold no
\* access_token
C13_InitRequiresToken ==
  [][ (last' = "init" /\ ~IsSome(options'.access_token)) => ret'.kind = "err" ]_vars

\* the values a message or an error handed to the host is made of
Disclosed ==
  { info.parts[i] : i \in 1..Len(info.parts) }
    \cup { info.text, ret.err.kind, ret.err.col }

\* C14: the access token is part of no message given to the diagnostics
\* sink and of no error returned to the host, and of the request it is in
\* the Authorization header only
C14_TokenNotDisclosed ==
  /\ Token \notin Disclosed
  /\ Token \notin { request.url.base, request.url.limit }

\* begin_scan sent the token to the remote and reported the page's length
C14_Witness ==
  /\ last = "begin_scan"
  /\ ret = Ok
  /\ request.authorization = Token
  /\ info = Message("We got response array length", << "2" >>)

\* C15: every successful begin_scan leaves the read offset at 0
C15_BeginScanResetsOffset ==
  [][ (last' = "begin_scan" /\ ret' = Ok) => src_idx' = 0 ]_vars

\* the response parsed as JSON and its customers field is missing or no array
WrongShape(resp) ==
  /\ resp.transport = "ok"
  /\ resp.body.valid
  /\ resp.body.customers # "array"

\* C16: a parsed body without a customers array makes the call return an
\* error value, not panic, and leaves the record buffer as it was
C16_WrongShapeIsError ==
  [][ WrongShape(response') => (ret'.kind = "err" /\ src_rows' = src_rows) ]_vars

\* the response is a page whose cursor field is present and no string
NonStringCursor(resp) ==
  /\ resp.transport = "ok"
  /\ resp.body.valid
  /\ resp.body.customers = "array"
  /\ resp.body.cursor.kind \in { "null", "number" }

C18_StopsAtFirstPageWithoutCursor ==
  (open /\ ~fetch_failed /\ ret = OkNone) => calls = Len(remote)

\* the last iter_scan got as far as reading the record at the offset
ReadRecord ==
  /\ last = "iter_scan"
  /\ \/ ret = OkRow
     \/ ret = Panic("index out of bounds")
     \/ ret.kind = "err" /\ response = NoResponse

C19_TablesIndependent ==
  (caller \in tables /\ Inited(caller) /\ ~trapped)
    => (src_rows = solo[caller].rows /\ src_idx = solo[caller].idx)

====
